---------------------------- MODULE Spec2Model ----------------------------
(***************************************************************************)
(* A model of the commuting-projection core of psydac together with the    *)
(* one-dimensional quadrature / point-evaluation utility of                *)
(* spl/utilities/integrate.py.                                             *)
(*                                                                         *)
(* Arithmetic.  The program computes in IEEE doubles.  The model computes  *)
(* exactly, in the field Q(sqrt r): a number is (a + b*sqrt(r))/d with     *)
(* integers a, b, d and a radicand r that is 3 for the two-point and 15    *)
(* for the three-point Gauss-Legendre rule.  A tolerance test of the       *)
(* program (error < 1e-9) is the same test on the exact value.             *)
(***************************************************************************)
EXTENDS Integers, Sequences, FiniteSets, TLC

(***************************************************************************)
(* State                                                                   *)
(***************************************************************************)
VARIABLES
    q_in,       \* the caller's hand-made (points, weights), None when it uses a class
    q_op,       \* the call last made to integrate.py: its name and arguments
    q_ret,      \* what that call returned (None when it raised)
    q_exc,      \* what that call raised ("none" when it returned)
    Integral_self,       \* the Integral object, None before its construction
    Interpolation_self,  \* the Interpolation object, None before its construction
    q_heap,     \* the result arrays the caller still holds, by identity
    q_ctor,     \* the arguments the object was constructed with, None before
    d_H,        \* the tensor space H1 the derivative operators are built over
    d_form,     \* the space of the complex the block vector d_u lives in
    d_u,        \* the block coefficient vector in hand
    d_src,      \* the block vector the last operator was applied to
    d_trace,    \* the operators applied so far, in order
    p_H,        \* the tensor space H1 the projectors are built over
    p_P,        \* the projectors built, by the name of their space
    p_op,       \* the call last made to a projector, or the check last run
    p_ret,      \* the block vector that call returned
    p_exc,      \* what that call raised ("none" when it returned)
    p_first,    \* the first projection made: projector, fields and result
    p_error,    \* the number the check last run compares with its tolerance
    w_cfg,      \* the partitioned run: the space, each worker's share, the results
    w_pc,       \* each worker's position in the body of the test
    w_store,    \* each worker's local storage: owned and ghost coefficients
    w_chan,     \* the ghost values sent and not yet received
    w_reads,    \* the reads of ghost coefficients made so far
    w_actor     \* the worker that took the last step, and the workers whose
                \* local storage the step changed

(***************************************************************************)
(* Exact numbers                                                           *)
(***************************************************************************)
RECURSIVE GCD(_, _)
GCD(x, y) == IF y = 0 THEN x ELSE GCD(y, x % y)

Abs(x) == IF x < 0 THEN -x ELSE x

Min(x, y) == IF x <= y THEN x ELSE y

Max(x, y) == IF x >= y THEN x ELSE y

\* (a + b*sqrt(r))/d divided through by g, the common divisor that carries
\* the sign of d
NormBy(a, b, d, r, g) ==
    [a |-> a \div g, b |-> b \div g, d |-> d \div g, r |-> IF b = 0 THEN 0 ELSE r]

\* (a + b*sqrt(r))/d in lowest terms, d > 0; a rational carries r = 0
Norm(a, b, d, r) ==
    NormBy(a, b, d, r, (IF d < 0 THEN -1 ELSE 1) * GCD(GCD(Abs(a), Abs(b)), Abs(d)))

Rat(n, d) == Norm(n, 0, d, 0)

Zero == [a |-> 0, b |-> 0, d |-> 1, r |-> 0]

One == [a |-> 1, b |-> 0, d |-> 1, r |-> 0]

Rad(x, y) == IF x.b # 0 THEN x.r ELSE y.r

\* over the least common denominator, g the common divisor of x.d and y.d
QAddBy(x, y, g) ==
    Norm(x.a * (y.d \div g) + y.a * (x.d \div g), x.b * (y.d \div g) + y.b * (x.d \div g),
         x.d * (y.d \div g), Rad(x, y))

QAdd(x, y) ==
    IF x.a = 0 /\ x.b = 0 THEN y
    ELSE IF y.a = 0 /\ y.b = 0 THEN x
    ELSE IF x.d = 1 /\ y.d = 1 /\ x.b = 0 /\ y.b = 0 THEN
        [a |-> x.a + y.a, b |-> 0, d |-> 1, r |-> 0]
    ELSE QAddBy(x, y, GCD(x.d, y.d))

QNeg(x) == [x EXCEPT !.a = -x.a, !.b = -x.b]

QSub(x, y) == QAdd(x, QNeg(y))

\* the product, g1 and g2 taken out of the numerators and denominators first
QMulBy(x, y, g1, g2) ==
    Norm((x.a \div g1) * (y.a \div g2) + Rad(x, y) * (x.b \div g1) * (y.b \div g2),
         (x.a \div g1) * (y.b \div g2) + (x.b \div g1) * (y.a \div g2),
         (x.d \div g2) * (y.d \div g1), Rad(x, y))

\* each numerator is first reduced against the other denominator
QMul(x, y) ==
    IF (x.a = 0 /\ x.b = 0) \/ (y.a = 0 /\ y.b = 0) THEN Zero
    ELSE IF x.d = 1 /\ y.d = 1 /\ x.b = 0 /\ y.b = 0 THEN
        [a |-> x.a * y.a, b |-> 0, d |-> 1, r |-> 0]
    ELSE QMulBy(x, y, GCD(GCD(Abs(x.a), Abs(x.b)), y.d), GCD(GCD(Abs(y.a), Abs(y.b)), x.d))

\* 1/x through the conjugate: d*(a - b*sqrt r)/(a^2 - r*b^2)
QInv(x) == Norm(x.a * x.d, -(x.b * x.d), x.a * x.a - x.r * x.b * x.b, x.r)

QDiv(x, y) == QMul(x, QInv(y))

\* the sign of a + b*sqrt(r), decided on integers
QSignOf(a, b, r) ==
    IF a = 0 /\ b = 0 THEN 0
    ELSE IF a >= 0 /\ b >= 0 THEN 1
    ELSE IF a <= 0 /\ b <= 0 THEN -1
    ELSE IF a > 0 THEN (IF a * a > r * b * b THEN 1 ELSE -1)
    ELSE (IF r * b * b > a * a THEN 1 ELSE -1)

QSignBy(x, g) == IF g = 0 THEN 0 ELSE QSignOf(x.a \div g, x.b \div g, x.r)

QSign(x) == QSignBy(x, GCD(Abs(x.a), Abs(x.b)))

QLess(x, y) == QSign(QSub(x, y)) < 0

QLeq(x, y) == QSign(QSub(x, y)) <= 0

QAbs(x) == IF QSign(x) < 0 THEN QNeg(x) ELSE x

\* x^k, by k multiplications, each made before the next is started
RECURSIVE QPowFrom(_, _, _)
QPowFrom(x, k, acc) ==
    IF acc # acc \/ k = 0 THEN acc ELSE QPowFrom(x, k - 1, QMul(acc, x))

QPow(x, k) == QPowFrom(x, k, One)

\* the function f with its values computed once, where it is built
Computed(f) == IF f = f THEN f ELSE f

\* the sum of term[q] over the q in S
RECURSIVE SumOver(_, _)
SumOver(S, term) ==
    IF S = {} THEN Zero
    ELSE LET q == CHOOSE q \in S : TRUE
         IN  QAdd(term[q], SumOver(S \ {q}, term))

\* x < 10^(-k) for x >= 0
RECURSIVE BelowPow10(_, _)
BelowPow10(x, k) ==
    IF QSign(x) = 0 THEN TRUE
    ELSE IF ~QLess(x, One) THEN FALSE
    ELSE IF k = 0 THEN TRUE
    ELSE BelowPow10(QMul(x, Rat(10, 1)), k - 1)

(***************************************************************************)
(* Callables.  A field is a polynomial in the logical coordinates: a       *)
(* sequence of terms c * x1^e[1] * ... * xd^e[d].  A callable of one       *)
(* variable is a field with every coordinate but one fixed; when further   *)
(* axis functionals are pending (rest) it is the field with those          *)
(* functionals already applied.                                            *)
(***************************************************************************)
RECURSIVE Monomial(_, _, _)
Monomial(e, pt, a) ==
    IF a > Len(e) THEN One ELSE QMul(QPow(pt[a], e[a]), Monomial(e, pt, a + 1))

RECURSIVE Eval(_, _)
Eval(f, pt) ==
    IF f = << >> THEN Zero
    ELSE QAdd(QMul(Rat(Head(f).c, 1), Monomial(Head(f).e, pt, 1)), Eval(Tail(f), pt))

Fun1(f) == [kind |-> "field", f |-> f, pt |-> <<Zero>>, ax |-> 1, rest |-> << >>]

\* the B-spline B_i of degree p on the knots T, at x (Cox - de Boor); the
\* last interval that is not empty is closed on the right
RECURSIVE BSpline(_, _, _, _)
BSpline(T, p, i, x) ==
    IF p = 0 THEN
        IF /\ QLeq(T[i], x)
           /\ \/ QLess(x, T[i + 1])
              \/ x = T[i + 1] /\ T[i + 1] = T[Len(T)] /\ T[i] # T[i + 1]
        THEN One ELSE Zero
    ELSE QAdd(IF T[i + p] = T[i] THEN Zero
              ELSE QMul(QDiv(QSub(x, T[i]), QSub(T[i + p], T[i])),
                        BSpline(T, p - 1, i, x)),
              IF T[i + p + 1] = T[i + 1] THEN Zero
              ELSE QMul(QDiv(QSub(T[i + p + 1], x), QSub(T[i + p + 1], T[i + 1])),
                        BSpline(T, p - 1, i + 1, x)))

\* basis function i of a spline space as a callable of one variable
BasisFun(T, p, i) ==
    [kind |-> "spline", f |-> [T |-> T, p |-> p, i |-> i], pt |-> <<Zero>>, ax |-> 1,
     rest |-> << >>]

(***************************************************************************)
(* spl/utilities/integrate.py                                              *)
(***************************************************************************)
\* points[:, ie]
Column(A, ie) == [q \in 1..A.rows |-> A.at[<<q, ie>>]]

RECURSIVE Call(_, _), integrate(_, _, _), SumZip(_, _, _, _, _), integrate_loop(_, _, _)
RECURSIVE SumZip_unweighted(_, _, _, _, _)

\* the sum with the weights forgotten: sum(f(x) for x in X)
SumZip_unweighted(X, W, f, q, acc) ==
    IF acc # acc \/ q > Min(Len(X), Len(W)) THEN acc
    ELSE SumZip_unweighted(X, W, f, q + 1, QAdd(acc, Call(f, X[q])))

\* np.sum(w*f(x) for (x,w) in zip(X,W)): the terms are added left to right,
\* starting from 0, for as long as both X and W have an entry; the running
\* sum acc is computed before the next term is started, as Python computes it
SumZip(X, W, f, q, acc) ==
    IF acc # acc \/ q > Min(Len(X), Len(W)) THEN acc
    ELSE SumZip(X, W, f, q + 1, QAdd(acc, QMul(W[q], Call(f, X[q]))))

\* Arrays live in a heap: a function from the identities of the arrays that
\* are alive to their contents.  A call is handed the identities of its
\* array arguments and hands back the identity of its result.

\* an np.zeros that hands out one cached buffer, cleared, on every call
np_zeros_cached(heap, ne) ==
    [heap |-> [i \in DOMAIN heap \cup {3} |-> IF i = 3 THEN [ie \in 1..ne |-> Zero] ELSE heap[i]],
     id |-> 3]

\* the heap with a zero array of length ne added under the identity id
Allocated(heap, ne, id) ==
    [heap |-> [i \in DOMAIN heap \cup {id} |->
                   IF i \in DOMAIN heap THEN heap[i] ELSE [ie \in 1..ne |-> Zero]],
     id |-> id]

\* np.zeros(ne): a new array, under an identity no array alive has
np_zeros(heap, ne) ==
    Allocated(heap, ne, CHOOSE i \in 1..(Cardinality(DOMAIN heap) + 1) : i \notin DOMAIN heap)

\* for ie in range(0, ne): X = points[:, ie]; W = weights[:, ie]; f_int[ie] = ...
\* X and W are read; the one array assigned to is f_int
integrate_loop(st, f, ie) ==
    IF st # st \/ ie > st.heap[st.points].cols THEN st
    ELSE integrate_loop(
             [st EXCEPT !.heap[st.f_int][ie] =
                 SumZip(Column(st.heap[st.points], ie), Column(st.heap[st.weights], ie),
                        f, 1, Zero)],
             f, ie + 1)

\* the locals of integrate once f_int is allocated
integrate_locals(points, weights, z) ==
    [heap |-> z.heap, points |-> points, weights |-> weights, f_int |-> z.id]

\* integrate(points, weights, f) in a heap: ne = points.shape[1];
\* f_int = np.zeros(ne); the loop; return f_int.  The heap and the identity
\* returned
integrate_run(heap, points, weights, f) ==
    integrate_loop(integrate_locals(points, weights, np_zeros(heap, heap[points].cols)), f, 1)

\* the array a finished call returned
Returned(st) == st.heap[st.f_int]

\* the value of integrate(points, weights, f) for arrays given by content
integrate(points, weights, f) ==
    Returned(integrate_run(<<points, weights>>, 1, 2, f))

\* f(x): the field at x, or the pending functionals of the other axes at x
Call(c, x) ==
    LET pt2 == [c.pt EXCEPT ![c.ax] = x]
    IN  IF c.rest = << >> THEN
            IF c.kind = "spline" THEN BSpline(c.f.T, c.f.p, c.f.i, x) ELSE Eval(c.f, pt2)
        ELSE LET h  == Head(c.rest)
                 c2 == [kind |-> c.kind, f |-> c.f, pt |-> pt2, ax |-> h.ax,
                        rest |-> Tail(c.rest)]
             IN  IF h.kind = "B" THEN Call(c2, h.sites[h.idx])
                 ELSE integrate(h.points, h.weights, c2)[h.idx]

(***************************************************************************)
(* Collaborators of integrate.py (spl.core, spl.utilities.quadratures)     *)
(***************************************************************************)
\* gauss_legendre(m): the (m+1)-point Gauss-Legendre rule on [-1, 1]
gauss_legendre(m) ==
    IF m = 0 THEN [u |-> <<Zero>>, w |-> <<Rat(2, 1)>>]
    ELSE IF m = 1 THEN [u |-> <<Norm(0, -1, 3, 3), Norm(0, 1, 3, 3)>>, w |-> <<One, One>>]
    ELSE [u |-> <<Norm(0, -1, 5, 15), Zero, Norm(0, 1, 5, 15)>>,
          w |-> <<Rat(5, 9), Rat(8, 9), Rat(5, 9)>>]

\* the rule (u, w) mapped onto each cell [grid[ie], grid[ie+1]]
construct_quadrature_grid(ne, k, u, w, grid) ==
    LET half(ie) == QDiv(QSub(grid[ie + 1], grid[ie]), Rat(2, 1))
        mid(ie)  == QDiv(QAdd(grid[ie + 1], grid[ie]), Rat(2, 1))
    IN  [points  |-> [rows |-> k, cols |-> ne,
                      at |-> [qi \in (1..k) \X (1..ne) |->
                                  QAdd(mid(qi[2]), QMul(u[qi[1]], half(qi[2])))]],
         weights |-> [rows |-> k, cols |-> ne,
                      at |-> [qi \in (1..k) \X (1..ne) |-> QMul(w[qi[1]], half(qi[2]))]]]

\* make_knots(breaks, p, periodic), multiplicity 1: a clamped (open) knot
\* vector repeats the end breakpoints p times; a periodic one continues the
\* breakpoints by p knots on either side, one period away
make_knots(breaks, p, periodic) ==
    LET nb == Len(breaks)
        L  == QSub(breaks[nb], breaks[1])
    IN  [i \in 1..(nb + 2 * p) |->
            IF i <= p THEN
                IF periodic THEN QSub(breaks[i - p + nb - 1], L) ELSE breaks[1]
            ELSE IF i > nb + p THEN
                IF periodic THEN QAdd(breaks[i - p - nb + 1], L) ELSE breaks[nb]
            ELSE breaks[i - p]]

\* the breakpoints T[p], ..., T[n] (0-based) of an open knot vector
construct_grid_from_knots(p, n, T) == [i \in 1..(n - p + 1) |-> T[p + i]]

RECURSIVE SumKnots(_, _, _)
SumKnots(T, i, j) == IF j = 0 THEN Zero ELSE QAdd(T[i + j], SumKnots(T, i, j - 1))

\* Greville abscissae: the mean of p consecutive knots, one per basis function
compute_greville(p, n, T) == [i \in 1..n |-> QDiv(SumKnots(T, i, p), Rat(p, 1))]

(***************************************************************************)
(* class Integral, class Interpolation                                     *)
(***************************************************************************)
None == [none |-> TRUE]

Some(v) == [some |-> v]

\* a constructor that also rejects an order below p+1
Integral__init__raises_checked(p, n, T, kind, k) ==
    IF kind \notin {"natural", "greville"} THEN "AssertionError"
    ELSE IF k # None /\ k.some < p + 1 THEN "ValueError"
    ELSE "none"

\* what Integral.__init__ raises: the assert on kind is its only check
Integral__init__raises(p, n, T, kind, k) ==
    IF kind \in {"natural", "greville"} THEN "none" ELSE "AssertionError"

\* a constructor whose default order is p
Integral__init__default_p(p, n, T, kind, k) ==
    LET grid == IF kind = "natural" THEN construct_grid_from_knots(p, n, T)
                ELSE compute_greville(p, n, T)
        kk   == IF k = None THEN p ELSE k.some
        uw   == gauss_legendre(kk - 1)
        ne   == Len(grid) - 1
        pw   == construct_quadrature_grid(ne, kk, uw.u, uw.w, grid)
    IN  [_grid |-> grid, _kind |-> kind, _p |-> p, _n |-> n, _T |-> T,
         _points |-> pw.points, _weights |-> pw.weights]

\* the object Integral.__init__ leaves behind
Integral__init__(p, n, T, kind, k) ==
    LET grid == IF kind = "natural" THEN construct_grid_from_knots(p, n, T)
                ELSE compute_greville(p, n, T)
        kk   == IF k = None THEN p + 1 ELSE k.some
        uw   == gauss_legendre(kk - 1)
        ne   == Len(grid) - 1
        pw   == construct_quadrature_grid(ne, kk, uw.u, uw.w, grid)
    IN  [_grid |-> grid, _kind |-> kind, _p |-> p, _n |-> n, _T |-> T,
         _points |-> pw.points, _weights |-> pw.weights]

\* Integral.__call__(f)
Integral__call__(self, f) == integrate(self._points, self._weights, f)

\* Interpolation.__init__
Interpolation__init__(p, n, T, sites) ==
    [_sites |-> IF sites = None THEN compute_greville(p, n, T) ELSE sites.some,
     _p |-> p, _n |-> n, _T |-> T]

\* the values in the reverse of the order of the sites
Interpolation__call__reversed(self, f) ==
    [i \in 1..Len(self._sites) |-> Call(f, self._sites[Len(self._sites) + 1 - i])]

\* Interpolation.__call__(f): np.array([f(x) for x in self._sites])
Interpolation__call__(self, f) == [i \in 1..Len(self._sites) |-> Call(f, self._sites[i])]

(***************************************************************************)
(* Spline spaces: SplineSpace, TensorFemSpace, VectorFemSpace               *)
(***************************************************************************)
\* SplineSpace(p, knots=T, periodic=periodic, basis='B')
SplineSpace(p, T, periodic) ==
    [p |-> p, T |-> T, periodic |-> periodic, basis |-> "B",
     n |-> IF periodic THEN Len(T) - 2 * p - 1 ELSE Len(T) - p - 1]

\* the companion of one axis: degree p-1 on the same knots without the first
\* and the last, histopolating basis; a clamped axis loses one function
reduce_axis(V) ==
    [p |-> V.p - 1, T |-> SubSeq(V.T, 2, Len(V.T) - 1), periodic |-> V.periodic,
     basis |-> "M", n |-> IF V.periodic THEN V.n ELSE V.n - 1]

\* TensorFemSpace.reduce_degree(axes, basis='M')
reduce_degree(H, axes) == [a \in 1..Len(H) |-> IF a \in axes THEN reduce_axis(H[a]) ELSE H[a]]

\* number of coefficients along each axis of a tensor space
Shape(H) == [a \in 1..Len(H) |-> H[a].n]

\* the multi-indices of an array of the given shape
RECURSIVE Idx(_)
Idx(shape) ==
    IF shape = << >> THEN { << >> }
    ELSE { <<i>> \o r : i \in 1..Head(shape), r \in Idx(Tail(shape)) }

\* the spaces of the complex over H1, as the tests build them
Space_H1(H) == << H >>

Space_Hcurl(H) ==
    IF Len(H) = 3 THEN << reduce_degree(H, {1}), reduce_degree(H, {2}), reduce_degree(H, {3}) >>
    ELSE << reduce_degree(H, {1}), reduce_degree(H, {2}) >>

Space_Hdiv(H) ==
    IF Len(H) = 3 THEN << reduce_degree(H, {2, 3}), reduce_degree(H, {1, 3}), reduce_degree(H, {1, 2}) >>
    ELSE << reduce_degree(H, {2}), reduce_degree(H, {1}) >>

Space_L2(H) == << reduce_degree(H, 1..Len(H)) >>

\* the zero block vector of a (vector) space
ZeroVector(V) == [b \in 1..Len(V) |-> [ix \in Idx(Shape(V[b])) |-> Zero]]

(***************************************************************************)
(* Derivative operators (psydac.feec.derivatives)                          *)
(***************************************************************************)
\* the knot span of function i of a point-evaluating axis: (T[i+p] - T[i])/p
DeltaKnot(V, i) == QDiv(QSub(V.T[i + V.p], V.T[i]), Rat(V.p, 1))

\* a stencil row that differences forwards: c[i+1] - c[i] around the axis
DiffStencilRow_forward(V, j) ==
    LET i  == IF V.periodic THEN j ELSE j + 1
        ip == IF i = V.n THEN 1 ELSE i + 1
        w  == QInv(DeltaKnot(V, i))
    IN  << [col |-> i, val |-> QNeg(w)], [col |-> ip, val |-> w] >>

\* row j of the difference stencil of one axis, as its (column, value)
\* band: the row's own source function i and the one before it; a periodic
\* axis wraps the column before the first, a clamped one starts at i = 2
DiffStencilRow(V, j) ==
    LET i  == IF V.periodic THEN j ELSE j + 1
        im == IF i = 1 THEN V.n ELSE i - 1
        w  == QInv(DeltaKnot(V, i))
    IN  << [col |-> im, val |-> QNeg(w)], [col |-> i, val |-> w] >>

\* the banded (n' x n) stencil matrix of an axis
DiffStencil(V) == Computed([j \in 1..reduce_axis(V).n |-> DiffStencilRow(V, j)])

RECURSIVE BandSum(_, _, _, _, _)
BandSum(row, c, ix, a, q) ==
    IF q > Len(row) THEN Zero
    ELSE QAdd(QMul(row[q].val, c[[ix EXCEPT ![a] = row[q].col]]),
              BandSum(row, c, ix, a, q + 1))

\* DirectionalDerivativeOperator: the stencil of axis a applied along axis
\* a of the coefficient array c of the tensor space H
DirectionalDerivative(H, a, c) ==
    LET D == DiffStencil(H[a])
    IN  Computed([ix \in Idx(Shape(reduce_degree(H, {a}))) |-> BandSum(D[ix[a]], c, ix, a, 1)])

\* the source indices that pass reads
DirectionalReads(H, a) ==
    LET D == DiffStencil(H[a])
    IN  { [ix EXCEPT ![a] = D[ix[a]][q].col] :
              ix \in Idx(Shape(reduce_degree(H, {a}))), q \in 1..2 }

ArrAdd(x, y) == Computed([ix \in DOMAIN x |-> QAdd(x[ix], y[ix])])

ArrSub(x, y) == Computed([ix \in DOMAIN x |-> QSub(x[ix], y[ix])])

ArrNeg(x) == Computed([ix \in DOMAIN x |-> QNeg(x[ix])])

\* Derivative_1D(H1, L2)
Derivative_1D(H, u) == << DirectionalDerivative(H, 1, u[1]) >>

\* Gradient_2D(H1, Hcurl), Gradient_3D(H1, Hcurl)
Gradient(H, u) == Computed([a \in 1..Len(H) |-> DirectionalDerivative(H, a, u[1])])

\* a curl whose first component adds its two terms
Curl_3D_unsigned(H, u) ==
    LET V == Space_Hcurl(H)
    IN  << ArrAdd(DirectionalDerivative(V[3], 2, u[3]), DirectionalDerivative(V[2], 3, u[2])),
           ArrSub(DirectionalDerivative(V[1], 3, u[1]), DirectionalDerivative(V[3], 1, u[3])),
           ArrSub(DirectionalDerivative(V[2], 1, u[2]), DirectionalDerivative(V[1], 2, u[1])) >>

\* Curl_3D(Hcurl, Hdiv): (D2 u3 - D3 u2, D3 u1 - D1 u3, D1 u2 - D2 u1)
Curl_3D(H, u) ==
    LET V == Space_Hcurl(H)
    IN  << ArrSub(DirectionalDerivative(V[3], 2, u[3]), DirectionalDerivative(V[2], 3, u[2])),
           ArrSub(DirectionalDerivative(V[1], 3, u[1]), DirectionalDerivative(V[3], 1, u[3])),
           ArrSub(DirectionalDerivative(V[2], 1, u[2]), DirectionalDerivative(V[1], 2, u[1])) >>

\* Divergence_3D(Hdiv, L2): D1 u1 + D2 u2 + D3 u3
Divergence_3D(H, u) ==
    LET V == Space_Hdiv(H)
    IN  << ArrAdd(ArrAdd(DirectionalDerivative(V[1], 1, u[1]),
                         DirectionalDerivative(V[2], 2, u[2])),
                  DirectionalDerivative(V[3], 3, u[3])) >>

\* ScalarCurl_2D(Hcurl, L2): D1 u2 - D2 u1
ScalarCurl_2D(H, u) ==
    LET V == Space_Hcurl(H)
    IN  << ArrSub(DirectionalDerivative(V[2], 1, u[2]), DirectionalDerivative(V[1], 2, u[1])) >>

\* VectorCurl_2D(H1, Hdiv): (D2 u, -D1 u)
VectorCurl_2D(H, u) ==
    << DirectionalDerivative(H, 2, u[1]), ArrNeg(DirectionalDerivative(H, 1, u[1])) >>

\* Divergence_2D(Hdiv, L2): D1 u1 + D2 u2
Divergence_2D(H, u) ==
    LET V == Space_Hdiv(H)
    IN  << ArrAdd(DirectionalDerivative(V[1], 1, u[1]), DirectionalDerivative(V[2], 2, u[2])) >>

(***************************************************************************)
(* Global projectors (psydac.feec.global_projectors)                       *)
(***************************************************************************)
\* the knots of the space one degree up whose derivatives a clamped
\* histopolating space holds
elevate_knots(T) == <<T[1]>> \o T \o <<T[Len(T)]>>

\* an array with no quadrature point
NoArray == [rows |-> 0, cols |-> 0, at |-> << >>]

RECURSIVE GaussJordan(_, _, _)
\* Gauss-Jordan elimination of the n x 2n matrix M from column k on, taking
\* the first row with an entry in column k as the pivot row
GaussJordan(M, n, k) ==
    IF k > n THEN M
    ELSE LET r   == CHOOSE r \in k..n :
                        M[r][k] # Zero /\ \A s \in k..(r - 1) : M[s][k] = Zero
             Sw  == [M EXCEPT ![k] = M[r], ![r] = M[k]]
             Rk  == [j \in 1..(2 * n) |-> QDiv(Sw[k][j], Sw[k][k])]
             E   == [i \in 1..n |->
                        IF i = k THEN Rk
                        ELSE [j \in 1..(2 * n) |-> QSub(Sw[i][j], QMul(Sw[i][k], Rk[j]))]]
         IN  GaussJordan(Computed(E), n, k + 1)

\* the inverse of a square matrix, given as a sequence of rows
Inverse(A) ==
    LET n == Len(A)
        M == [i \in 1..n |-> [j \in 1..(2 * n) |->
                 IF j <= n THEN A[i][j] ELSE IF j - n = i THEN One ELSE Zero]]
        R == GaussJordan(M, n, 1)
    IN  Computed([i \in 1..n |-> [j \in 1..n |-> R[i][n + j]]])

\* what a projector holds for one axis of one component: the functionals
\* of the axis (sites, or quadrature points and weights over the intervals
\* between the sites of the space one degree up), the square matrix of the
\* functionals applied to the basis, and its inverse
AxisProjector(V, Nq) ==
    IF V.basis = "B" THEN
        LET I == Interpolation__init__(V.p, V.n, V.T, None)
            A == Computed([i \in 1..V.n |-> [j \in 1..V.n |-> BSpline(V.T, V.p, j, I._sites[i])]])
        IN  [kind |-> "B", sites |-> I._sites, points |-> NoArray, weights |-> NoArray,
             imat |-> A, inv |-> Inverse(A)]
    ELSE
        LET G == Integral__init__(V.p + 1, V.n + 1, elevate_knots(V.T), "greville", Some(Nq))
            m == Computed([j \in 1..V.n |-> Integral__call__(G, BasisFun(V.T, V.p, j))])
            A == Computed([i \in 1..V.n |-> [j \in 1..V.n |-> m[j][i]]])
        IN  [kind |-> "M", sites |-> << >>, points |-> G._points, weights |-> G._weights,
             imat |-> A, inv |-> Inverse(A)]

\* Projector_H1(H1), Projector_Hcurl(Hcurl, Nq), Projector_Hdiv(Hdiv, Nq),
\* Projector_L2(L2, Nq): one block per component of the (vector) space
GlobalProjector(V, Nq) ==
    [space |-> V, Nq |-> Nq,
     blocks |-> Computed([b \in 1..Len(V) |->
                    [a \in 1..Len(V[b]) |-> AxisProjector(V[b][a], Nq)]])]

RECURSIVE RowDot(_, _, _, _, _)
RowDot(row, c, ix, a, j) ==
    IF j > Len(row) THEN Zero
    ELSE QAdd(QMul(row[j], c[[ix EXCEPT ![a] = j]]), RowDot(row, c, ix, a, j + 1))

\* a sweep that applies the transpose of the matrix
AxisSweep_transposed(A, a, c) ==
    Computed([ix \in DOMAIN c |->
        RowDot([j \in 1..Len(A) |-> A[j][ix[a]]], c, ix, a, 1)])

\* one sweep: the matrix A applied along axis a of the array c
AxisSweep(A, a, c) == Computed([ix \in DOMAIN c |-> RowDot(A[ix[a]], c, ix, a, 1)])

RECURSIVE SweepTrace(_, _, _, _)
\* the sweeps of the axes order[k], order[k+1], ...: the arrays before the
\* first sweep and after each
SweepTrace(mats, order, k, tr) ==
    IF tr # tr \/ k > Len(order) THEN tr
    ELSE SweepTrace(mats, order, k + 1,
                    Append(tr, AxisSweep(mats[order[k]], order[k], tr[Len(tr)])))

RECURSIVE KronSweeps(_, _, _)
\* the sweeps of the axes a, a+1, ..., in that order
KronSweeps(mats, a, c) ==
    IF a > Len(mats) THEN c ELSE KronSweeps(mats, a + 1, AxisSweep(mats[a], a, c))

\* a solver whose sweeps stop one axis short
solver_short(P, u) ==
    Computed([b \in 1..Len(u) |->
        KronSweeps([a \in 1..(Len(P.blocks[b]) - 1) |-> P.blocks[b][a].inv], 1, u[b])])

\* P.imat_kronecker applied to a block vector
imat_kronecker(P, u) ==
    Computed([b \in 1..Len(u) |->
        KronSweeps([a \in 1..Len(P.blocks[b]) |-> P.blocks[b][a].imat], 1, u[b])])

\* P.solver applied to a block vector
solver(P, u) ==
    Computed([b \in 1..Len(u) |->
        KronSweeps([a \in 1..Len(P.blocks[b]) |-> P.blocks[b][a].inv], 1, u[b])])

\* the functional of axis a with index i, pending on a callable
AxisFunctional(X, a, i) ==
    [kind |-> X.kind, ax |-> a, idx |-> i, sites |-> X.sites, points |-> X.points,
     weights |-> X.weights]

\* degree of freedom ix of the field f for one component: along each axis
\* the value at a site ("B") or the quadrature over an interval ("M")
Dof(axes, f, ix) ==
    LET d == Len(axes)
        c == [kind |-> "field", f |-> f, pt |-> [a \in 1..d |-> Zero], ax |-> 1,
              rest |-> [a \in 1..(d - 1) |-> AxisFunctional(axes[a + 1], a + 1, ix[a + 1])]]
    IN  IF axes[1].kind = "B" THEN Call(c, axes[1].sites[ix[1]])
        ELSE integrate(axes[1].points, axes[1].weights, c)[ix[1]]

\* the degrees of freedom of the fields fs, one field per component
DofVector(P, fs) ==
    Computed([b \in 1..Len(P.space) |->
        [ix \in Idx(Shape(P.space[b])) |-> Dof(P.blocks[b], fs[b], ix)]])

\* a call that pairs fields with components and drops the fields left over
project_raises_short(P, fs) ==
    IF Len(fs) < Len(P.space) THEN "ConfigurationError" ELSE "none"

\* what P(fs) raises: the fields must be one per component of the space
project_raises(P, fs) ==
    IF Len(fs) # Len(P.space) THEN "ConfigurationError" ELSE "none"

\* a call that adds the new coefficients to the ones of the last call
project_accumulating(P, fs) ==
    LET u == solver(P, DofVector(P, fs))
    IN  IF p_ret = << >> \/ Len(p_ret) # Len(u) THEN u
        ELSE Computed([b \in 1..Len(u) |->
                 IF DOMAIN p_ret[b] = DOMAIN u[b] THEN ArrAdd(u[b], p_ret[b]) ELSE u[b]])

\* P(fs): the solver applied to the degrees of freedom of the fields
project(P, fs) == solver(P, DofVector(P, fs))

\* a projector that keeps, once used, the factorization in place of the matrix
Called_refactoring(P) ==
    [P EXCEPT !.blocks = [b \in 1..Len(P.blocks) |-> [a \in 1..Len(P.blocks[b]) |->
                             [P.blocks[b][a] EXCEPT !.imat = P.blocks[b][a].inv]]]]

\* the projector once a call to it has returned: P(fs), P.imat_kronecker and
\* P.solver read the pieces built at construction and assign to none
Called(P) == P

(***************************************************************************)
(* Fields and their continuous derivatives, as the tests write them        *)
(***************************************************************************)
\* the partial derivative of a polynomial field along axis a
RECURSIVE Dfun(_, _)
Dfun(f, a) ==
    IF f = << >> THEN << >>
    ELSE LET t == Head(f)
         IN  (IF t.e[a] = 0 THEN << >>
              ELSE << [c |-> t.c * t.e[a], e |-> [t.e EXCEPT ![a] = @ - 1]] >>)
             \o Dfun(Tail(f), a)

FieldNeg(f) == [k \in 1..Len(f) |-> [f[k] EXCEPT !.c = -@]]

FieldAdd(f, g) == f \o g

FieldSub(f, g) == f \o FieldNeg(g)

\* the largest power of variable a in the fields fs
FieldDegree(fs, a) ==
    LET E == {0} \cup UNION { { fs[b][k].e[a] : k \in 1..Len(fs[b]) } : b \in 1..Len(fs) }
    IN  CHOOSE m \in E : \A e \in E : e <= m

\* the derivatives with the second component of the vector curl unsigned
ContinuousDerivative_unsigned(name, d, fs) ==
    IF name = "Derivative_1D" THEN << Dfun(fs[1], 1) >>
    ELSE IF name = "Gradient" THEN [a \in 1..d |-> Dfun(fs[1], a)]
    ELSE IF name = "Curl_3D" THEN
        << FieldSub(Dfun(fs[3], 2), Dfun(fs[2], 3)),
           FieldSub(Dfun(fs[1], 3), Dfun(fs[3], 1)),
           FieldSub(Dfun(fs[2], 1), Dfun(fs[1], 2)) >>
    ELSE IF name = "Divergence_3D" THEN
        << FieldAdd(FieldAdd(Dfun(fs[1], 1), Dfun(fs[2], 2)), Dfun(fs[3], 3)) >>
    ELSE IF name = "VectorCurl_2D" THEN << Dfun(fs[1], 2), Dfun(fs[1], 1) >>
    ELSE IF name = "ScalarCurl_2D" THEN << FieldSub(Dfun(fs[2], 1), Dfun(fs[1], 2)) >>
    ELSE << FieldAdd(Dfun(fs[1], 1), Dfun(fs[2], 2)) >>

\* the continuous derivative the target projector is given, per operator
ContinuousDerivative(name, d, fs) ==
    IF name = "Derivative_1D" THEN << Dfun(fs[1], 1) >>
    ELSE IF name = "Gradient" THEN [a \in 1..d |-> Dfun(fs[1], a)]
    ELSE IF name = "Curl_3D" THEN
        << FieldSub(Dfun(fs[3], 2), Dfun(fs[2], 3)),
           FieldSub(Dfun(fs[1], 3), Dfun(fs[3], 1)),
           FieldSub(Dfun(fs[2], 1), Dfun(fs[1], 2)) >>
    ELSE IF name = "Divergence_3D" THEN
        << FieldAdd(FieldAdd(Dfun(fs[1], 1), Dfun(fs[2], 2)), Dfun(fs[3], 3)) >>
    ELSE IF name = "VectorCurl_2D" THEN << Dfun(fs[1], 2), FieldNeg(Dfun(fs[1], 1)) >>
    ELSE IF name = "ScalarCurl_2D" THEN << FieldSub(Dfun(fs[2], 1), Dfun(fs[1], 2)) >>
    ELSE << FieldAdd(Dfun(fs[1], 1), Dfun(fs[2], 2)) >>

\* the discrete operator of that name
DiscreteDerivative(name, H, u) ==
    IF name = "Derivative_1D" THEN Derivative_1D(H, u)
    ELSE IF name = "Gradient" THEN Gradient(H, u)
    ELSE IF name = "Curl_3D" THEN Curl_3D(H, u)
    ELSE IF name = "Divergence_3D" THEN Divergence_3D(H, u)
    ELSE IF name = "VectorCurl_2D" THEN VectorCurl_2D(H, u)
    ELSE IF name = "ScalarCurl_2D" THEN ScalarCurl_2D(H, u)
    ELSE Divergence_2D(H, u)

\* the operators of the complexes in d dimensions, with their two spaces
Transitions(d) ==
    IF d = 1 THEN { [name |-> "Derivative_1D", from |-> "H1", to |-> "L2"] }
    ELSE IF d = 2 THEN
        { [name |-> "Gradient", from |-> "H1", to |-> "Hcurl"],
          [name |-> "ScalarCurl_2D", from |-> "Hcurl", to |-> "L2"],
          [name |-> "VectorCurl_2D", from |-> "H1", to |-> "Hdiv"],
          [name |-> "Divergence_2D", from |-> "Hdiv", to |-> "L2"] }
    ELSE
        { [name |-> "Gradient", from |-> "H1", to |-> "Hcurl"],
          [name |-> "Curl_3D", from |-> "Hcurl", to |-> "Hdiv"],
          [name |-> "Divergence_3D", from |-> "Hdiv", to |-> "L2"] }

BlockSub(u, v) == Computed([b \in 1..Len(u) |-> ArrSub(u[b], v[b])])

\* abs(u.toarray()).max()
MaxAbs(u) ==
    LET vals == UNION { { QAbs(u[b][ix]) : ix \in DOMAIN u[b] } : b \in 1..Len(u) }
    IN  CHOOSE m \in vals : \A v \in vals : QLeq(v, m)

\* e.dot(e)
Dot(u, v) ==
    LET pos == UNION { { <<b, ix>> : ix \in DOMAIN u[b] } : b \in 1..Len(u) }
    IN  SumOver(pos, [q \in pos |-> QMul(u[q[1]][q[2]], v[q[1]][q[2]])])

(***************************************************************************)
(* Groups of variables                                                     *)
(***************************************************************************)
qvars == <<q_in, q_op, q_ret, q_exc, Integral_self, Interpolation_self, q_heap, q_ctor>>

dvars == <<d_H, d_form, d_u, d_src, d_trace>>

pvars == <<p_H, p_P, p_op, p_ret, p_exc, p_first, p_error>>

wvars == <<w_cfg, w_pc, w_store, w_chan, w_reads, w_actor>>

vars == <<qvars, dvars, pvars, wvars>>

\* no partitioned run started
WorkersIdle ==
    /\ w_cfg = [H |-> << >>] /\ w_pc = << >> /\ w_store = << >>
    /\ w_chan = {} /\ w_reads = {} /\ w_actor = [by |-> 0, touched |-> {}]

\* the quadrature utility before any call
QuadIdle ==
    /\ q_in = None /\ q_op = [name |-> "none"] /\ q_ret = None /\ q_exc = "none"
    /\ Integral_self = None /\ Interpolation_self = None
    /\ q_heap = << >> /\ q_ctor = None

\* no projector built
ProjIdle ==
    /\ p_H = << >> /\ p_P = << >> /\ p_op = [name |-> "none"] /\ p_ret = << >>
    /\ p_exc = "none" /\ p_first = [form |-> "none"] /\ p_error = Zero

\* no derivative operator built
DerivIdle ==
    /\ d_H = << >> /\ d_form = "none" /\ d_u = << >> /\ d_src = << >> /\ d_trace = << >>

(***************************************************************************)
(* Inputs of the quadrature utility                                        *)
(***************************************************************************)
\* largest entry of a hand-made points / weights array
MaxVal == 1

\* largest number of rows (quadrature points) and columns (elements) of one
MaxShape == 2

\* u -> 1, u -> u, u -> u*(1-u) (the docstring's example), u -> u^3
QuadFuns ==
    { Fun1(<<[c |-> 1, e |-> <<0>>]>>),
      Fun1(<<[c |-> 1, e |-> <<1>>]>>),
      Fun1(<<[c |-> 1, e |-> <<1>>], [c |-> -1, e |-> <<2>>]>>),
      Fun1(<<[c |-> 1, e |-> <<3>>]>>) }

\* (k x ne) arrays whose entries vary with the row and with the column
Arrays(k, ne) ==
    { [rows |-> k, cols |-> ne,
       at |-> [qi \in (1..k) \X (1..ne) |-> Rat(c[1] + c[2] * qi[1] + c[3] * qi[2], 1)]] :
          c \in (0..MaxVal) \X (0..MaxVal) \X (-MaxVal..MaxVal) }

ArrayPairs ==
    UNION { { [points |-> P, weights |-> W] : P \in Arrays(sh[1], sh[2]), W \in Arrays(sh[1], sh[2]) } :
              sh \in (0..MaxShape) \X (0..MaxShape) }

\* element boundaries of [0, 1]: one, two (even or uneven) and three elements
BreakSets ==
    { <<Zero, One>>,
      <<Zero, Rat(1, 2), One>>,
      <<Zero, Rat(1, 3), One>>,
      <<Zero, Rat(1, 3), Rat(2, 3), One>> }

\* (p, breaks, k): degrees and quadrature orders whose Gauss-Legendre nodes
\* lie in Q(sqrt 3) or Q(sqrt 15)
IntegralArgs ==
    { a \in [p : 1..3, breaks : BreakSets, kind : {"natural", "greville", "cells"},
             k : {None, Some(1), Some(2), Some(3)}] :
          (a.k = None) => a.p <= 2 }

(***************************************************************************)
(* Operations of integrate.py                                              *)
(***************************************************************************)
\* the result arrays a caller holds at one time, at most
MaxHeld == 2

\* the caller's heap at a call: the two arrays passed, and the results held
CallerHeap(points, weights) == <<points, weights>> @@ q_heap

\* the results held once the call has returned
Held(st) == [i \in DOMAIN st.heap \ {1, 2} |-> st.heap[i]]

\* integrate(points, weights, f) on arrays of one shape
IntegrateCall ==
    \E f \in QuadFuns :
        /\ q_in # None
        /\ Cardinality(DOMAIN q_heap) < MaxHeld
        /\ \E st \in {integrate_run(CallerHeap(q_in.points, q_in.weights), 1, 2, f)} :
            /\ q_op' = [name |-> "integrate", f |-> f, id |-> st.f_int]
            /\ q_ret' = Returned(st)
            /\ q_in' = [points |-> st.heap[st.points], weights |-> st.heap[st.weights]]
            /\ q_heap' = Held(st)
        /\ q_exc' = "none"
        /\ UNCHANGED <<Integral_self, Interpolation_self, q_ctor, dvars, pvars, wvars>>

\* Integral(p, n, T, kind, k)
IntegralInit ==
    \E a \in IntegralArgs :
      LET T == make_knots(a.breaks, a.p, FALSE)
          n == Len(T) - a.p - 1
          exc == Integral__init__raises(a.p, n, T, a.kind, a.k)
      IN  /\ q_in = None /\ Integral_self = None /\ Interpolation_self = None
          /\ q_op' = [name |-> "Integral.__init__", p |-> a.p, n |-> n, T |-> T,
                      kind |-> a.kind, k |-> a.k]
          /\ q_exc' = exc
          /\ q_ret' = None
          /\ Integral_self' = IF exc = "none" THEN Integral__init__(a.p, n, T, a.kind, a.k)
                              ELSE Integral_self
          /\ q_ctor' = IF exc = "none" THEN [p |-> a.p, n |-> n, T |-> T, kind |-> a.kind, k |-> a.k]
                       ELSE q_ctor
          /\ UNCHANGED <<q_in, Interpolation_self, q_heap, dvars, pvars, wvars>>

\* Integral.__call__(f): return integrate(self._points, self._weights, f)
IntegralCall ==
    \E f \in QuadFuns :
        /\ Integral_self # None
        /\ Cardinality(DOMAIN q_heap) < MaxHeld
        /\ \E st \in {integrate_run(CallerHeap(Integral_self._points, Integral_self._weights),
                                    1, 2, f)} :
            /\ q_op' = [name |-> "Integral.__call__", f |-> f, id |-> st.f_int]
            /\ q_ret' = Returned(st)
            /\ Integral_self' = [Integral_self EXCEPT !._points = st.heap[st.points],
                                                      !._weights = st.heap[st.weights]]
            /\ q_heap' = Held(st)
        /\ q_exc' = "none"
        /\ UNCHANGED <<q_in, Interpolation_self, q_ctor, dvars, pvars, wvars>>

\* the caller lets go of a result it held
ResultRelease ==
    \E i \in DOMAIN q_heap :
        /\ q_heap' = [j \in DOMAIN q_heap \ {i} |-> q_heap[j]]
        /\ UNCHANGED <<q_in, q_op, q_ret, q_exc, Integral_self, Interpolation_self, q_ctor,
                       dvars, pvars, wvars>>

\* Interpolation(p, n, T, sites)
InterpolationInit ==
    \E p \in 1..3, breaks \in BreakSets, sites \in {None, Some(<<Zero, Rat(1, 4), One>>)} :
      LET T == make_knots(breaks, p, FALSE)
          n == Len(T) - p - 1
      IN  /\ q_in = None /\ Integral_self = None /\ Interpolation_self = None
          /\ q_op' = [name |-> "Interpolation.__init__", p |-> p, n |-> n, T |-> T,
                      sites |-> sites]
          /\ q_exc' = "none"
          /\ q_ret' = None
          /\ Interpolation_self' = Interpolation__init__(p, n, T, sites)
          /\ q_ctor' = [p |-> p, n |-> n, T |-> T, sites |-> sites]
          /\ UNCHANGED <<q_in, Integral_self, q_heap, dvars, pvars, wvars>>

\* Interpolation.__call__(f)
InterpolationCall ==
    \E f \in QuadFuns :
        /\ Interpolation_self # None
        /\ q_op' = [name |-> "Interpolation.__call__", f |-> f]
        /\ q_ret' = Interpolation__call__(Interpolation_self, f)
        /\ q_exc' = "none"
        /\ UNCHANGED <<q_in, Integral_self, Interpolation_self, q_heap, q_ctor,
                       dvars, pvars, wvars>>

Init ==
    /\ q_in \in {None} \cup ArrayPairs
    /\ q_op = [name |-> "none"]
    /\ q_ret = None
    /\ q_exc = "none"
    /\ Integral_self = None
    /\ Interpolation_self = None
    /\ q_heap = << >>
    /\ q_ctor = None
    /\ DerivIdle
    /\ ProjIdle
    /\ WorkersIdle

Next ==
    \/ IntegrateCall
    \/ IntegralInit
    \/ IntegralCall
    \/ ResultRelease
    \/ InterpolationInit
    \/ InterpolationCall

Spec == Init /\ [][Next]_vars

(***************************************************************************)
(* Claims about integrate.py                                               *)
(***************************************************************************)
\* the value of a one-variable callable at x, from its polynomial
ValueAt(f, x) == Eval(f.f, <<x>>)

\* the sum over the quadrature points q of element ie of w[q,ie]*f(p[q,ie])
ElementSum(points, weights, f, ie) ==
    SumOver(1..points.rows,
            [q \in 1..points.rows |->
                QMul(weights.at[<<q, ie>>], ValueAt(f, points.at[<<q, ie>>]))])

PerElement(points, weights, f, ret) ==
    /\ DOMAIN ret = 1..points.cols
    /\ \A ie \in 1..points.cols : ret[ie] = ElementSum(points, weights, f, ie)

\* C5: integrate(points, weights, f) returns exactly one entry per element
\* (points.shape[1] entries), and entry ie is the sum over the quadrature
\* points q of that element of weights[q, ie] * f(points[q, ie]); the same
\* holds of Integral.__call__, which passes the object's arrays.
C5_IntegratePerElement ==
    /\ q_op.name = "integrate" =>
           PerElement(q_in.points, q_in.weights, q_op.f, q_ret)
    /\ q_op.name = "Integral.__call__" =>
           PerElement(Integral_self._points, Integral_self._weights, q_op.f, q_ret)

\* a call on a 2 x 2 grid whose two entries are different and not zero
C5_Witness ==
    /\ q_op.name = "integrate"
    /\ q_in.points.rows = 2 /\ q_in.points.cols = 2
    /\ DOMAIN q_ret = 1..2
    /\ q_ret[1] # q_ret[2] /\ q_ret[1] # Zero /\ q_ret[2] # Zero

\* C9: an Integral built with a quadrature order below p+1 is constructed,
\* and applied, without raising: its only check is the one on kind.
C9_LowOrderNotRejected ==
    /\ ( /\ q_op.name = "Integral.__init__"
         /\ q_op.kind \in {"natural", "greville"}
         /\ q_op.k # None /\ q_op.k.some < q_op.p + 1 )
       => ( /\ q_exc = "none"
            /\ Integral_self # None
            /\ Integral_self._points.rows = q_op.k.some )
    /\ ( /\ q_op.name = "Integral.__call__"
         /\ Integral_self._points.rows < Integral_self._p + 1 )
       => ( /\ q_exc = "none"
            /\ DOMAIN q_ret = 1..(Len(Integral_self._grid) - 1) )

\* a one-point rule on a cubic space, applied to u^3: it returns, and what
\* it returns for the first cell [a, b] is not the integral (b^4 - a^4)/4
C9_Witness ==
    /\ q_op.name = "Integral.__call__"
    /\ Integral_self._p = 3 /\ Integral_self._points.rows = 1
    /\ q_op.f = Fun1(<<[c |-> 1, e |-> <<3>>]>>)
    /\ q_exc = "none"
    /\ q_ret[1] # QDiv(QSub(QPow(Integral_self._grid[2], 4), QPow(Integral_self._grid[1], 4)),
                       Rat(4, 1))

\* a step leaves the arrays passed, the arrays of the object and the results
\* held as they were, and a result comes under an identity not in use
PureStep ==
    /\ q_in' = q_in
    /\ Integral_self # None => Integral_self' = Integral_self
    /\ \A i \in DOMAIN q_heap \cap DOMAIN q_heap' : q_heap'[i] = q_heap[i]
    /\ (DOMAIN q_heap' # DOMAIN q_heap /\ q_op' # q_op) =>
           /\ q_op'.id \notin {1, 2} \cup DOMAIN q_heap
           /\ q_op'.id \in DOMAIN q_heap'
           /\ q_heap'[q_op'.id] = q_ret'

\* what Integral.__call__ returned is what an object just built from the
\* same arguments returns for the same f
ResultFromArguments ==
    q_op.name = "Integral.__call__" =>
        q_ret = Integral__call__(
                    Integral__init__(q_ctor.p, q_ctor.n, q_ctor.T, q_ctor.kind, q_ctor.k),
                    q_op.f)

\* C12: integrate and Integral.__call__ leave the points and weights arrays
\* (the caller's, and the ones stored in the Integral object) unchanged and
\* return a freshly allocated array: no result held from an earlier call is
\* changed; so what Integral.__call__(f) returns, after any calls, depends
\* only on f and on the arguments of the construction.
C12_QuadraturePure == [][PureStep]_vars /\ []ResultFromArguments

\* a second call on one object: two results held, different and not zero,
\* the later one under the second identity
C12_Witness ==
    /\ q_op.name = "Integral.__call__"
    /\ DOMAIN q_heap = {3, 4}
    /\ q_op.id = 4
    /\ q_heap[3] # q_heap[4]
    /\ \A ie \in DOMAIN q_heap[3] : q_heap[3][ie] # Zero /\ q_heap[4][ie] # Zero
    /\ q_ret = q_heap[4]

\* the quadrature order of the construction: k when given, p+1 when not
OrderOf(c) == IF c.k = None THEN c.p + 1 ELSE c.k.some

\* the arrays of self are the rule uw mapped onto the ne elements of the grid
BuiltFrom(self, k, ne, uw) ==
    /\ Len(uw.u) = k /\ Len(uw.w) = k
    /\ self._points.rows = k /\ self._weights.rows = k
    /\ self._points.cols = ne /\ self._weights.cols = ne
    /\ DOMAIN self._points.at = (1..k) \X (1..ne)
    /\ DOMAIN self._weights.at = (1..k) \X (1..ne)
    /\ [points |-> self._points, weights |-> self._weights]
           = construct_quadrature_grid(ne, k, uw.u, uw.w, self._grid)

\* C14: the quadrature order of an Integral is p+1 when k is not given and
\* the k supplied otherwise; the Gauss-Legendre rule is requested with k-1
\* and has k points, and the stored points and weights have k rows and one
\* column per element of the grid.
C14_QuadratureOrder ==
    Integral_self # None =>
        BuiltFrom(Integral_self, OrderOf(q_ctor), Len(Integral_self._grid) - 1,
                  gauss_legendre(OrderOf(q_ctor) - 1))

\* an order above p+1 supplied, on a grid of three elements; and used
C14_Witness ==
    /\ q_op.name = "Integral.__call__"
    /\ q_ctor.k = Some(3) /\ q_ctor.p = 1
    /\ Integral_self._points.rows = 3 /\ Integral_self._points.cols = 3
    /\ Len(q_ret) = 3

\* the sites of the construction: those given, the Greville abscissae if none
SitesOf(c) == IF c.sites = None THEN compute_greville(c.p, c.n, c.T) ELSE c.sites.some

\* C15: Interpolation keeps the Greville abscissae of (p, n, T), one per
\* basis function, as its sites when none are supplied and the supplied
\* sites otherwise; Interpolation.__call__(f) returns one value per site,
\* in the order of the sites, each the value of f at that site.
C15_InterpolationSites ==
    /\ Interpolation_self # None =>
           /\ Interpolation_self._sites = SitesOf(q_ctor)
           /\ q_ctor.sites = None => Len(Interpolation_self._sites) = q_ctor.n
    /\ q_op.name = "Interpolation.__call__" =>
           /\ DOMAIN q_ret = 1..Len(Interpolation_self._sites)
           /\ \A i \in DOMAIN q_ret : q_ret[i] = ValueAt(q_op.f, Interpolation_self._sites[i])

\* f(u) = u at the four Greville abscissae of a quadratic space on two
\* cells: four values, increasing
C15_Witness ==
    /\ q_op.name = "Interpolation.__call__"
    /\ q_ctor.sites = None /\ q_ctor.p = 2 /\ q_ctor.n = 4
    /\ q_op.f = Fun1(<<[c |-> 1, e |-> <<1>>]>>)
    /\ Len(q_ret) = 4
    /\ \A i \in 1..3 : QLess(q_ret[i], q_ret[i + 1])

(***************************************************************************)
(* The derivative operators on block vectors of small spaces               *)
(***************************************************************************)
\* largest absolute value of a source coefficient
MaxCoef == 1

\* axes: clamped linear on one and on two uneven elements, periodic linear
\* on two uneven elements, clamped quadratic on one element, periodic
\* quadratic on three elements, clamped cubic on one element
SplineAxes ==
    [ lin1 |-> SplineSpace(1, make_knots(<<Zero, One>>, 1, FALSE), FALSE),
      lin2 |-> SplineSpace(1, make_knots(<<Zero, Rat(1, 3), One>>, 1, FALSE), FALSE),
      per2 |-> SplineSpace(1, make_knots(<<Zero, Rat(1, 3), One>>, 1, TRUE), TRUE),
      quad |-> SplineSpace(2, make_knots(<<Zero, One>>, 2, FALSE), FALSE),
      per3 |-> SplineSpace(2, make_knots(<<Zero, Rat(1, 3), Rat(2, 3), One>>, 2, TRUE), TRUE),
      cub  |-> SplineSpace(3, make_knots(<<Zero, One>>, 3, FALSE), FALSE) ]

\* the tensor spaces H1 the operators are built over, in 1, 2 and 3 dimensions
DerivSpaces ==
    LET A == SplineAxes
    IN  { <<A.lin2>>, <<A.per2>>, <<A.quad>>, <<A.per3>>,
          <<A.lin2, A.per2>>, <<A.per2, A.quad>>, <<A.quad, A.lin2>>, <<A.per3, A.per2>>,
          <<A.lin1, A.lin1, A.lin1>>, <<A.per2, A.lin1, A.lin2>>, <<A.lin1, A.per2, A.per2>> }

\* the (vector) space of a form over H1
FormSpace(H, form) ==
    IF form = "H1" THEN Space_H1(H)
    ELSE IF form = "Hcurl" THEN Space_Hcurl(H)
    ELSE IF form = "Hdiv" THEN Space_Hdiv(H)
    ELSE Space_L2(H)

\* block vectors of a space with at most two entries that are not zero
SparseVectors(V) ==
    LET pos == UNION { { <<b, ix>> : ix \in Idx(Shape(V[b])) } : b \in 1..Len(V) }
    IN  { [b \in 1..Len(V) |->
              [ix \in Idx(Shape(V[b])) |->
                  IF <<b, ix>> = s.p1 THEN Rat(s.v1, 1)
                  ELSE IF <<b, ix>> = s.p2 THEN Rat(s.v2, 1)
                  ELSE Zero]] :
          s \in [p1 : pos, p2 : pos, v1 : 1..MaxCoef, v2 : (-MaxCoef)..MaxCoef] }

\* the vectors the inverse is tried on when none was projected: each unit
\* vector of the space, and the vector of ones
ProbeVectors(V) ==
    LET pos == UNION { { <<b, ix>> : ix \in Idx(Shape(V[b])) } : b \in 1..Len(V) }
    IN  { [b \in 1..Len(V) |->
              [ix \in Idx(Shape(V[b])) |-> IF <<b, ix>> = s THEN One ELSE Zero]] :
          s \in pos }
        \cup { [b \in 1..Len(V) |-> [ix \in Idx(Shape(V[b])) |-> One]] }

\* one operator of the family applied to the vector in hand
DerivStep(name, from, to, out) ==
    /\ d_H # << >>
    /\ d_form = from
    /\ d_src' = d_u
    /\ d_u' = out
    /\ d_form' = to
    /\ d_trace' = Append(d_trace, name)
    /\ UNCHANGED <<d_H, qvars, pvars, wvars>>

ApplyDerivative_1D ==
    /\ d_H # << >> /\ Len(d_H) = 1 /\ d_form = "H1"
    /\ DerivStep("Derivative_1D", "H1", "L2", Derivative_1D(d_H, d_u))

ApplyGradient ==
    /\ d_H # << >> /\ Len(d_H) > 1 /\ d_form = "H1"
    /\ DerivStep("Gradient", "H1", "Hcurl", Gradient(d_H, d_u))

ApplyCurl_3D ==
    /\ d_H # << >> /\ Len(d_H) = 3 /\ d_form = "Hcurl"
    /\ DerivStep("Curl_3D", "Hcurl", "Hdiv", Curl_3D(d_H, d_u))

ApplyDivergence_3D ==
    /\ d_H # << >> /\ Len(d_H) = 3 /\ d_form = "Hdiv"
    /\ DerivStep("Divergence_3D", "Hdiv", "L2", Divergence_3D(d_H, d_u))

ApplyScalarCurl_2D ==
    /\ d_H # << >> /\ Len(d_H) = 2 /\ d_form = "Hcurl"
    /\ DerivStep("ScalarCurl_2D", "Hcurl", "L2", ScalarCurl_2D(d_H, d_u))

ApplyVectorCurl_2D ==
    /\ d_H # << >> /\ Len(d_H) = 2 /\ d_form = "H1"
    /\ DerivStep("VectorCurl_2D", "H1", "Hdiv", VectorCurl_2D(d_H, d_u))

ApplyDivergence_2D ==
    /\ d_H # << >> /\ Len(d_H) = 2 /\ d_form = "Hdiv"
    /\ DerivStep("Divergence_2D", "Hdiv", "L2", Divergence_2D(d_H, d_u))

\* any coefficient vector of H1, or of a space in the middle of the complex
InitDeriv ==
    /\ QuadIdle
    /\ ProjIdle
    /\ WorkersIdle
    /\ d_H \in DerivSpaces
    /\ d_form \in (IF Len(d_H) = 1 THEN {"H1"} ELSE {"H1", "Hcurl", "Hdiv"})
    /\ d_u \in SparseVectors(FormSpace(d_H, d_form))
    /\ d_src = << >>
    /\ d_trace = << >>

NextDeriv ==
    \/ ApplyDerivative_1D
    \/ ApplyGradient
    \/ ApplyCurl_3D
    \/ ApplyDivergence_3D
    \/ ApplyScalarCurl_2D
    \/ ApplyVectorCurl_2D
    \/ ApplyDivergence_2D

SpecDeriv == InitDeriv /\ [][NextDeriv]_vars

(***************************************************************************)
(* Claims about the derivative operators                                   *)
(***************************************************************************)
\* C3: for any source coefficient vector, two consecutive operators of a
\* complex (curl after gradient, divergence after curl, and their 2D
\* counterparts) give the zero coefficient vector of the space reached.
C3_DiscreteDDZero ==
    Len(d_trace) >= 2 => d_u = ZeroVector(FormSpace(d_H, d_form))

\* the 3D curl applied to a gradient that is not zero
C3_Witness ==
    /\ d_trace = <<"Gradient", "Curl_3D">>
    /\ d_src # ZeroVector(Space_Hcurl(d_H))
    /\ \E a \in 1..3 : d_H[a].periodic

\* the difference quotient of the source array c along axis a that output
\* index ix stands for
StencilValue(H, a, c, ix) ==
    LET V  == H[a]
        i  == IF V.periodic THEN ix[a] ELSE ix[a] + 1
        im == IF V.periodic /\ i = 1 THEN V.n ELSE i - 1
    IN  QDiv(QSub(c[[ix EXCEPT ![a] = i]], c[[ix EXCEPT ![a] = im]]), DeltaKnot(V, i))

\* C4: along the differentiated axis a, output coefficient i is
\* (c[i] - c[i-1]) / dknot[i]; a periodic axis has as many outputs as
\* sources and wraps i-1 around the axis; a clamped axis has one output
\* less, numbered from the second source function, and no read of the pass
\* falls outside the source range.
C4_DerivativeStencil ==
    (d_trace # << >> /\ d_trace[Len(d_trace)] \in {"Derivative_1D", "Gradient"}) =>
        \A a \in 1..Len(d_H) :
            /\ DOMAIN d_u[a] = Idx(Shape(reduce_degree(d_H, {a})))
            /\ reduce_axis(d_H[a]).n = IF d_H[a].periodic THEN d_H[a].n ELSE d_H[a].n - 1
            /\ \A ix \in DOMAIN d_u[a] : d_u[a][ix] = StencilValue(d_H, a, d_src[1], ix)
            /\ DirectionalReads(d_H, a) \subseteq DOMAIN d_src[1]

\* a periodic axis whose first output is made of the last source coefficient
C4_Witness ==
    /\ d_trace = <<"Derivative_1D">>
    /\ d_H[1].periodic
    /\ d_src[1][<<d_H[1].n>>] # Zero /\ d_src[1][<<1>>] = Zero
    /\ d_u[1][<<1>>] # Zero

(***************************************************************************)
(* The projectors on small clamped spaces, driven as the tests drive them  *)
(***************************************************************************)
Term(c, e) == [c |-> c, e |-> e]

\* scalar fields of d coordinates: polynomials of low and of high degree
ScalarFields(d) ==
    IF d = 1 THEN
        { << Term(1, <<1>>) >>,
          << Term(1, <<3>>), Term(-1, <<1>>) >>,
          << Term(1, <<4>>), Term(2, <<0>>) >>,
          << Term(1, <<5>>) >>,
          << Term(1, <<7>>) >> }
    ELSE IF d = 2 THEN
        { << Term(1, <<1, 1>>) >>,
          << Term(1, <<2, 1>>), Term(-1, <<0, 3>>) >>,
          << Term(1, <<5, 2>>) >> }
    ELSE
        { << Term(1, <<1, 1, 1>>) >>,
          << Term(1, <<2, 0, 1>>), Term(1, <<0, 1, 0>>) >>,
          << Term(1, <<5, 1, 1>>) >> }

\* vector fields of d coordinates, one polynomial per component
VectorFields(d) ==
    IF d = 2 THEN
        { << <<Term(1, <<0, 2>>)>>, <<Term(1, <<1, 1>>)>> >>,
          << <<Term(1, <<2, 1>>)>>, <<Term(1, <<1, 0>>), Term(-1, <<0, 3>>)>> >>,
          << <<Term(1, <<5, 1>>)>>, <<Term(1, <<1, 5>>)>> >> }
    ELSE
        { << <<Term(1, <<0, 2, 1>>)>>, <<Term(1, <<1, 0, 1>>)>>, <<Term(1, <<1, 3, 0>>)>> >>,
          << <<Term(1, <<1, 1, 1>>)>>, <<Term(1, <<2, 0, 0>>)>>, <<Term(1, <<0, 1, 2>>)>> >>,
          << <<Term(1, <<5, 1, 0>>)>>, <<Term(1, <<0, 5, 1>>)>>, <<Term(1, <<1, 0, 5>>)>> >> }

\* the fields a projector of the form is given: one per component
FieldsFor(d, form) ==
    IF form \in {"H1", "L2"} THEN { <<f>> : f \in ScalarFields(d) } ELSE VectorFields(d)

\* the fields of the repeated projections: one of low, one of high degree
RepeatedFields(d, form) ==
    { fs \in FieldsFor(d, form) : FieldDegree(fs, 1) \in {2, 3, 5} }

\* tuples with one callable too few or too many for a vector-valued space
WrongArity(d) ==
    LET v == CHOOSE v \in RepeatedFields(d, "Hcurl") : FieldDegree(v, 1) = 2
    IN  { SubSeq(v, 1, d - 1), v \o <<v[1]>> }

Forms(d) == IF d = 1 THEN {"H1", "L2"} ELSE {"H1", "Hcurl", "Hdiv", "L2"}

\* H1 and the quadrature order of the histopolating projectors
ProjConfigs ==
    LET A == SplineAxes
    IN  { [H |-> <<A.lin1>>, Nq |-> 2], [H |-> <<A.lin2>>, Nq |-> 1],
          [H |-> <<A.lin2>>, Nq |-> 2], [H |-> <<A.lin2>>, Nq |-> 3],
          [H |-> <<A.quad>>, Nq |-> 2], [H |-> <<A.quad>>, Nq |-> 3],
          [H |-> <<A.cub>>, Nq |-> 3],
          [H |-> <<A.lin2, A.quad>>, Nq |-> 2], [H |-> <<A.quad, A.lin1>>, Nq |-> 3],
          [H |-> <<A.quad, A.quad>>, Nq |-> 3],
          [H |-> <<A.lin1, A.lin1, A.lin2>>, Nq |-> 2] }

\* P0 = Projector_H1(H1), P1 = Projector_Hcurl(Hcurl, Nq), ...
Projectors(H, Nq) ==
    Computed([form \in Forms(Len(H)) |-> GlobalProjector(FormSpace(H, form), Nq)])

\* u = P(fs), once more or for the first time; a tuple of the wrong length
\* is refused and leaves no coefficients
Project ==
    \E form \in Forms(Len(p_H)) :
      \E fs \in RepeatedFields(Len(p_H), form)
                \cup (IF form \in {"Hcurl", "Hdiv"} THEN WrongArity(Len(p_H)) ELSE {}) :
        LET exc == project_raises(p_P[form], fs)
            u   == IF exc = "none" THEN project(p_P[form], fs) ELSE << >>
        IN  /\ p_H # << >>
            /\ p_op.name \in {"none", "project"}
            /\ p_op' = [name |-> "project", form |-> form, fs |-> fs]
            /\ p_exc' = exc
            /\ p_ret' = u
            /\ p_first' =
                 IF exc # "none" THEN p_first
                 ELSE IF p_first.form = "none"
                      THEN [form |-> form, fs |-> fs, coeffs |-> u, between |-> FALSE]
                 ELSE IF p_first.form = form /\ p_first.fs = fs THEN p_first
                 ELSE [p_first EXCEPT !.between = TRUE]
            /\ p_error' = Zero
            /\ p_P' = [p_P EXCEPT ![form] = Called(p_P[form])]
            /\ UNCHANGED <<p_H, qvars, dvars, wvars>>

\* the body of a commuting test: u_k = P_k(f), Dfun_h = D(u_k),
\* Dfun_proj = P_k+1(df), error = abs(Dfun_proj - Dfun_h).max()
TestCommuting ==
    \E tr \in Transitions(Len(p_H)) :
      \E fs \in FieldsFor(Len(p_H), tr.from) :
        LET u_src     == project(p_P[tr.from], fs)
            Dfun_h    == DiscreteDerivative(tr.name, p_H, u_src)
            Dfun_proj == project(p_P[tr.to], ContinuousDerivative(tr.name, Len(p_H), fs))
        IN  /\ p_H # << >>
            /\ p_op.name = "none"
            /\ p_op' = [name |-> "commuting", tr |-> tr, fs |-> fs,
                        u_src |-> u_src, u_tgt |-> Dfun_proj]
            /\ p_exc' = "none"
            /\ p_ret' = Dfun_h
            /\ p_error' = MaxAbs(BlockSub(Dfun_proj, Dfun_h))
            /\ p_P' = [p_P EXCEPT ![tr.from] = Called(p_P[tr.from]),
                                  ![tr.to] = Called(p_P[tr.to])]
            /\ UNCHANGED <<p_H, p_first, qvars, dvars, wvars>>

\* Err = P.solver @ P.imat_kronecker - Id; e = Err @ c; sqrt(e.dot(e)),
\* kept squared
InverseCheck(form, c) ==
    LET e == BlockSub(solver(p_P[form], imat_kronecker(p_P[form], c)), c)
    IN  /\ p_op' = [name |-> "inverse", form |-> form, c |-> c, after |-> p_op.name]
        /\ p_exc' = "none"
        /\ p_ret' = e
        /\ p_error' = Dot(e, e)
        /\ p_P' = [p_P EXCEPT ![form] = Called(p_P[form])]
        /\ UNCHANGED <<p_H, p_first, qvars, dvars, wvars>>

\* the check on the coefficients a commuting test has just projected
TestInverseProjected ==
    /\ p_H # << >>
    /\ p_op.name = "commuting"
    /\ \/ InverseCheck(p_op.tr.from, p_op.u_src)
       \/ InverseCheck(p_op.tr.to, p_op.u_tgt)

\* the check on a vector of the caller's
TestInverseRandom ==
    \E form \in Forms(Len(p_H)) :
      \E c \in ProbeVectors(FormSpace(p_H, form)) :
        /\ p_H # << >>
        /\ p_op.name = "none"
        /\ InverseCheck(form, c)

\* the orders in which d axes can be swept
AxisOrders(d) == { o \in [1..d -> 1..d] : \A i, j \in 1..d : o[i] = o[j] => i = j }

\* the per-axis matrices of block b: of the operator, or of the solver
AxisMatrices(P, b, which) ==
    [a \in 1..Len(P.blocks[b]) |->
        IF which = "imat" THEN P.blocks[b][a].imat ELSE P.blocks[b][a].inv]

\* the Kronecker operator, or the solver, applied by sweeping the axes in
\* an order of the caller's choice
SweepAxes ==
    \E form \in Forms(Len(p_H)), which \in {"imat", "inv"}, order \in AxisOrders(Len(p_H)) :
      \E c \in ProbeVectors(FormSpace(p_H, form)) :
        LET steps == [b \in 1..Len(c) |->
                         SweepTrace(AxisMatrices(p_P[form], b, which), order, 1, <<c[b]>>)]
        IN  /\ p_H # << >>
            /\ p_op.name = "none"
            /\ p_op' = [name |-> "sweeps", form |-> form, which |-> which, order |-> order,
                        c |-> c, steps |-> steps]
            /\ p_exc' = "none"
            /\ p_ret' = [b \in 1..Len(c) |-> steps[b][Len(order) + 1]]
            /\ p_error' = Zero
            /\ p_P' = [p_P EXCEPT ![form] = Called(p_P[form])]
            /\ UNCHANGED <<p_H, p_first, qvars, dvars, wvars>>

InitProj ==
    /\ QuadIdle
    /\ DerivIdle
    /\ WorkersIdle
    /\ \E cfg \in ProjConfigs :
         /\ p_H = cfg.H
         /\ p_P = Projectors(cfg.H, cfg.Nq)
    /\ p_op = [name |-> "none"]
    /\ p_ret = << >>
    /\ p_exc = "none"
    /\ p_first = [form |-> "none"]
    /\ p_error = Zero

NextProj ==
    \/ Project
    \/ TestCommuting
    \/ TestInverseProjected
    \/ TestInverseRandom
    \/ SweepAxes

SpecProj == InitProj /\ [][NextProj]_vars

(***************************************************************************)
(* Claims about the projectors                                             *)
(***************************************************************************)
\* the quadrature order meets the contract Nq >= p + 1 on every axis
MeetsContract == \A a \in 1..Len(p_H) : p_P["L2"].Nq >= p_H[a].p + 1

\* the Nq-point rule is exact for the derivatives of the fields, and for the
\* histopolating basis, along every axis
QuadratureExact ==
    \A a \in 1..Len(p_H) :
        /\ FieldDegree(p_op.fs, a) <= 2 * p_P["L2"].Nq
        /\ p_H[a].p <= 2 * p_P["L2"].Nq

ArityMismatch ==
    /\ p_op.name = "project"
    /\ p_op.form \in {"Hcurl", "Hdiv"}
    /\ Len(p_op.fs) # Len(FormSpace(p_H, p_op.form))

AsBuilt == p_H # << >> => p_P = Projectors(p_H, p_P["H1"].Nq)

AlongAxis(A, a, c, out) ==
    /\ DOMAIN out = DOMAIN c
    /\ \A ix \in DOMAIN c :
           out[ix] = SumOver(1..Len(A),
                             [j \in 1..Len(A) |-> QMul(A[ix[a]][j], c[[ix EXCEPT ![a] = j]])])

\* C13: the Kronecker operator and the Kronecker solver, applied by sweeping
\* the axes in any order, give what they give in the order 1, ..., d; and
\* each sweep applies the matrix of its axis along that axis alone.
C13_SweepsCommute ==
    p_op.name = "sweeps" =>
        /\ p_ret = IF p_op.which = "imat" THEN imat_kronecker(p_P[p_op.form], p_op.c)
                   ELSE solver(p_P[p_op.form], p_op.c)
        /\ \A b \in 1..Len(p_op.c) : \A k \in 1..Len(p_op.order) :
               AlongAxis(AxisMatrices(p_P[p_op.form], b, p_op.which)[p_op.order[k]],
                         p_op.order[k], p_op.steps[b][k], p_op.steps[b][k + 1])

\* two axes swept last to first by the solver of a vector-valued space, on
\* a vector with a component that each of the two sweeps changes
C13_Witness ==
    /\ p_op.name = "sweeps"
    /\ p_op.which = "inv"
    /\ p_op.form = "Hcurl"
    /\ p_op.order = <<2, 1>>
    /\ p_ret # p_op.c
    /\ \E b \in 1..2 : \A k \in 1..2 : p_op.steps[b][k] # p_op.steps[b][k + 1]

(***************************************************************************)
(* The 1D test on an axis partitioned among workers: every worker runs the *)
(* body of the test on its share of the coefficients                       *)
(***************************************************************************)
\* the workers of a run
Workers(cfg) == 1..Len(cfg.own)

\* number of coefficients of the vector named vec
CellCount(H, vec) == IF vec = "u0" THEN H[1].n ELSE reduce_axis(H[1]).n

\* the source function the stencil row of output coefficient j sits on
RowSource(H, j) == IF H[1].periodic THEN j ELSE j + 1

\* the coefficients of a vector a worker owns: its share of H1, and the
\* coefficients of the reduced space its stencil rows compute
OwnedCells(cfg, w, vec) ==
    IF vec = "u0" THEN { <<i>> : i \in cfg.own[w] }
    ELSE { <<j>> : j \in { k \in 1..CellCount(cfg.H, vec) : RowSource(cfg.H, k) \in cfg.own[w] } }

\* the coefficients next to a coefficient along the axis
NeighbourCells(H, vec, cell) ==
    LET n == CellCount(H, vec)
        i == cell[1]
    IN  { <<k>> : k \in { k \in 1..n :
              \/ k = i - 1
              \/ k = i + 1
              \/ H[1].periodic /\ i = 1 /\ k = n
              \/ H[1].periodic /\ i = n /\ k = 1 } }

\* the ghost region of a worker: the neighbours of its coefficients that
\* other workers own
GhostCells(cfg, w, vec) ==
    (UNION { NeighbourCells(cfg.H, vec, c) : c \in OwnedCells(cfg, w, vec) })
        \ OwnedCells(cfg, w, vec)

LocalCells(cfg, w, vec) == OwnedCells(cfg, w, vec) \cup GhostCells(cfg, w, vec)

\* a local array as allocated: zeros, nothing written or received yet
FreshArray(cells) == [c \in cells |-> [v |-> Zero, s |-> FALSE]]

\* the storage a worker has after construction
FreshStore(cfg, w) ==
    [u0        |-> FreshArray(LocalCells(cfg, w, "u0")),
     Dfun_h    |-> FreshArray(LocalCells(cfg, w, "Dfun_h")),
     Dfun_proj |-> FreshArray(LocalCells(cfg, w, "Dfun_proj")),
     error     |-> Zero]

\* what a run on one worker gives for the vector named vec
RefVector(cfg, vec) ==
    IF vec = "u0" THEN cfg.c0[1]
    ELSE IF vec = "Dfun_proj" THEN cfg.c1[1]
    ELSE Derivative_1D(cfg.H, cfg.c0)[1]

\* a worker whose results land in the storage of the next worker
Holder_next(cfg, w) == (w % Len(cfg.own)) + 1

\* the storage a worker's writes land in: its own
Holder(cfg, w) == w

\* the store with the values vals written at the given cells of the array
\* vec held by h
WriteCells(store, h, vec, cells, vals) ==
    [store EXCEPT ![h][vec] =
        [c \in DOMAIN @ |-> IF c \in cells THEN [v |-> vals[c], s |-> TRUE] ELSE @[c]]]

\* the ghost values on their way to worker w for the vector vec
Inbox(w, vec) == { m \in w_chan : m.to = w /\ m.vec = vec }

\* an exchange that returns without waiting for the neighbours
ExchangeComplete_nowait(cfg, w, vec) == TRUE

\* the exchange of worker w is complete when every neighbour's value for
\* its ghost region has arrived
ExchangeComplete(cfg, w, vec) ==
    \A c \in GhostCells(cfg, w, vec) : \E m \in Inbox(w, vec) : m.cell = c

\* the reads of ghost coefficients among the reads of the given cells
GhostReads(w, vec, cells) ==
    { [by |-> w, vec |-> vec, cell |-> c, v |-> w_store[w][vec][c].v,
       s |-> w_store[w][vec][c].s] : c \in cells \cap GhostCells(w_cfg, w, vec) }

\* the values of a local array
Values(arr) == [c \in DOMAIN arr |-> arr[c].v]

\* the vector exchanged at a position of the body
SyncVec(pc) ==
    IF pc \in {"send_u0", "recv_u0"} THEN "u0"
    ELSE IF pc \in {"send_Dfun_h", "recv_Dfun_h"} THEN "Dfun_h"
    ELSE "Dfun_proj"

\* the position after a position of the body
NextPc(pc) ==
    CASE pc = "P0"             -> "P1"
      [] pc = "P1"             -> "send_u0"
      [] pc = "send_u0"        -> "recv_u0"
      [] pc = "recv_u0"        -> "grad"
      [] pc = "grad"           -> "send_Dfun_h"
      [] pc = "send_Dfun_h"    -> "recv_Dfun_h"
      [] pc = "recv_Dfun_h"    -> "send_Dfun_proj"
      [] pc = "send_Dfun_proj" -> "recv_Dfun_proj"
      [] pc = "recv_Dfun_proj" -> "max"
      [] OTHER                 -> "done"

\* worker w moves on, once its step has settled the storage
WorkerStep(w) ==
    /\ w_pc' = [w_pc EXCEPT ![w] = NextPc(@)]
    /\ w_actor' = [by |-> w,
                   touched |-> { h \in 1..Len(w_store) : w_store'[h] # w_store[h] }]
    /\ UNCHANGED <<w_cfg, qvars, dvars, pvars>>

\* u0 = P0(fun1), u1 = P1(Dfun1): the worker's block of the coefficients
WProject(w) ==
    /\ w_pc[w] \in {"P0", "P1"}
    /\ LET vec == IF w_pc[w] = "P0" THEN "u0" ELSE "Dfun_proj"
       IN  w_store' = WriteCells(w_store, Holder(w_cfg, w), vec,
                                 OwnedCells(w_cfg, w, vec), RefVector(w_cfg, vec))
    /\ WorkerStep(w)
    /\ UNCHANGED <<w_chan, w_reads>>

\* update_ghost_regions, first half: the worker's coefficients that lie in
\* a neighbour's ghost region are sent to that neighbour
WExchangeSend(w) ==
    /\ w_pc[w] \in {"send_u0", "send_Dfun_h", "send_Dfun_proj"}
    /\ LET vec == SyncVec(w_pc[w])
       IN  w_chan' = w_chan \cup UNION {
             { [vec |-> vec, to |-> v, cell |-> c, val |-> w_store[w][vec][c].v] :
                 c \in OwnedCells(w_cfg, w, vec) \cap GhostCells(w_cfg, v, vec) } :
             v \in Workers(w_cfg) \ {w} }
    /\ UNCHANGED <<w_store, w_reads>>
    /\ WorkerStep(w)

\* update_ghost_regions, second half: the values that arrived are stored in
\* the ghost region
WExchangeRecv(w) ==
    /\ w_pc[w] \in {"recv_u0", "recv_Dfun_h", "recv_Dfun_proj"}
    /\ LET vec  == SyncVec(w_pc[w])
           got  == Inbox(w, vec)
           vals == [c \in { m.cell : m \in got } |->
                       (CHOOSE m \in got : m.cell = c).val]
       IN  /\ ExchangeComplete(w_cfg, w, vec)
           /\ w_store' = WriteCells(w_store, Holder(w_cfg, w), vec, DOMAIN vals, vals)
           /\ w_chan' = w_chan \ got
    /\ WorkerStep(w)
    /\ UNCHANGED w_reads

\* Dfun_h = grad(u0): the stencil rows of the worker, read from its local u0
WGrad(w) ==
    /\ w_pc[w] = "grad"
    /\ LET V    == w_cfg.H[1]
           out  == OwnedCells(w_cfg, w, "Dfun_h")
           view == Values(w_store[w].u0)
           vals == [c \in out |-> BandSum(DiffStencilRow(V, c[1]), view, c, 1, 1)]
           cols == UNION { { <<DiffStencilRow(V, c[1])[q].col>> : q \in 1..2 } : c \in out }
       IN  /\ w_store' = WriteCells(w_store, Holder(w_cfg, w), "Dfun_h", out, vals)
           /\ w_reads' = w_reads \cup GhostReads(w, "u0", cols)
    /\ WorkerStep(w)
    /\ UNCHANGED w_chan

\* error = abs(Dfun_proj - Dfun_h).max() over the worker's local arrays
WMax(w) ==
    /\ w_pc[w] = "max"
    /\ LET cells == LocalCells(w_cfg, w, "Dfun_h")
           diffs == { QAbs(QSub(w_store[w].Dfun_proj[c].v, w_store[w].Dfun_h[c].v)) :
                        c \in cells } \cup {Zero}
           e     == CHOOSE m \in diffs : \A d \in diffs : QLeq(d, m)
       IN  /\ w_store' = [w_store EXCEPT ![Holder(w_cfg, w)].error = e]
           /\ w_reads' = w_reads \cup GhostReads(w, "Dfun_h", cells)
                                 \cup GhostReads(w, "Dfun_proj", cells)
    /\ WorkerStep(w)
    /\ UNCHANGED w_chan

\* the shares of the workers: blocks of consecutive coefficients of H1
Shares == { << {1}, {2, 3} >>, << {1, 2}, {3} >>, << {1}, {2}, {3} >> }

\* the partitioned runs: a clamped and a periodic space of three functions
\* shared among two or three workers, with the coefficients the projectors
\* give
WorkerConfigs ==
    UNION { UNION { { [H |-> H, own |-> own, c0 |-> c0, c1 |-> c1] :
                        own \in Shares,
                        c1 \in { ZeroVector(Space_L2(H)), Derivative_1D(H, c0) } } :
                    c0 \in ProbeVectors(Space_H1(H)) } :
            H \in { <<SplineAxes.lin2>>, <<SplineAxes.per3>> } }

InitWorkers ==
    /\ QuadIdle
    /\ DerivIdle
    /\ ProjIdle
    /\ w_cfg \in WorkerConfigs
    /\ w_pc = [w \in Workers(w_cfg) |-> "P0"]
    /\ w_store = [w \in Workers(w_cfg) |-> FreshStore(w_cfg, w)]
    /\ w_chan = {}
    /\ w_reads = {}
    /\ w_actor = [by |-> 0, touched |-> {}]

NextWorkers ==
    \E w \in 1..Len(w_pc) :
        \/ WProject(w)
        \/ WExchangeSend(w)
        \/ WExchangeRecv(w)
        \/ WGrad(w)
        \/ WMax(w)

SpecWorkers == InitWorkers /\ [][NextWorkers]_vars

(***************************************************************************)
(* Claims about the workers                                                *)
(***************************************************************************)
\* the worker that owns a coefficient
OwnerOf(cfg, vec, cell) == CHOOSE w \in Workers(cfg) : cell \in OwnedCells(cfg, w, vec)

AllDone == w_pc # << >> /\ \A w \in 1..Len(w_pc) : w_pc[w] = "done"

\* the coefficients every worker owns are the ones a run on one worker gives
OwnedAsOnOneWorker ==
    \A w \in Workers(w_cfg) : \A vec \in {"u0", "Dfun_h", "Dfun_proj"} :
        \A c \in OwnedCells(w_cfg, w, vec) :
            w_store[w][vec][c] = [v |-> RefVector(w_cfg, vec)[c], s |-> TRUE]

=============================================================================
